---- MODULE Spec2Model ----
(***************************************************************************)
(* Model of src/linear-utils.ts: the on-create-branch command that parses  *)
(* a branch name, advances the Linear issue to the team's draft state and  *)
(* assigns it.  JavaScript strings that the code splits or upper-cases are *)
(* sequences of one-character strings; remote entities are referred to by  *)
(* string ids, with Null for null/undefined.                               *)
(***************************************************************************)
EXTENDS Naturals, Sequences, FiniteSets, TLC

\* ------------------------------------------------------------------ bounds
MaxBranchLen == 6
MaxRuns == 2

\* --------------------------------------------------------------- constants
Null == "null"
\* exitCode is the set holding the exit code, empty while the process runs
NotExited == {}

SupportedFormat == "{username}/{issueIdentifier}-{issueTitle}"
Formats == {SupportedFormat, "{issueIdentifier}-{issueTitle}"}

AdvanceableTypesWithoutUnstarted == {"triage", "backlog"}

\* line 59: the state types the advancer moves on from
AdvanceableTypes == {"triage", "backlog", "unstarted"}

\* characters a branch name is drawn from
Chars == {"a", "1", "/", "-"}

\* ------------------------------------------------------- string functions
UpperCharUnchanged(c) == c

\* String.prototype.toUpperCase, per character
UpperChar(c) == IF c = "a" THEN "A" ELSE c

ToUpperCase(s) == [i \in DOMAIN s |-> UpperChar(s[i])]

\* index of the first occurrence of sep in s, 0 when there is none
RECURSIVE IndexOf(_, _, _)
IndexOf(s, sep, from) ==
    IF from > Len(s) THEN 0
    ELSE IF s[from] = sep THEN from
    ELSE IndexOf(s, sep, from + 1)

\* String.prototype.split on a one-character separator
RECURSIVE Split(_, _)
Split(s, sep) ==
    LET i == IndexOf(s, sep, 1)
    IN  IF i = 0 THEN <<s>>
        ELSE <<SubSeq(s, 1, i - 1)>> \o Split(SubSeq(s, i + 1, Len(s)), sep)

\* ----------------------------------------------------------------- parser
\* collectAssigneeIssueIdentifierFromBranchName: error is the thrown error
\* ("none" when it returns), spec the set holding the returned value.
ParseFailure == [error |-> "IncompatibleBranchFormat", spec |-> {}]

FewerThanTwoSlashParts(slashParts) == Len(slashParts) < 2

\* line 115: slashParts.length !== 2
WrongSlashParts(slashParts) == Len(slashParts) # 2

\* line 122: idTitleParts.length < 2
TooFewIdTitleParts(idTitleParts) == Len(idTitleParts) < 2

collectAssigneeIssueIdentifierFromBranchName(gitBranchFormat, branch) ==
    IF gitBranchFormat = SupportedFormat
    THEN LET slashParts == Split(branch, "/")
         IN  IF WrongSlashParts(slashParts) THEN ParseFailure
             ELSE LET idTitleParts == Split(slashParts[2], "-")
                  IN  IF TooFewIdTitleParts(idTitleParts) THEN ParseFailure
                      ELSE [error |-> "none",
                            spec |-> {[assignee |-> slashParts[1],
                                       issueIdentifier |->
                                           ToUpperCase(idTitleParts[1]) \o <<"-">>
                                               \o idTitleParts[2]]}]
    ELSE ParseFailure

\* ------------------------------------------------------------ remote data
\* the team's workflow states, by id, and the type of each
StateIds == {"s_triage", "s_backlog", "s_unstarted", "s_started",
             "s_completed", "s_canceled"}

StateType(id) ==
    CASE id = "s_triage" -> "triage"
      [] id = "s_backlog" -> "backlog"
      [] id = "s_unstarted" -> "unstarted"
      [] id = "s_started" -> "started"
      [] id = "s_completed" -> "completed"
      [] OTHER -> "canceled"

\* the identifier of the one issue the tracker holds
IssueIdentifier == <<"A", "-", "1">>

TeamId == "t1"

\* users of the organization: two share a display name
AllUsers == {[id |-> "u1", displayName |-> <<"a">>],
             [id |-> "u2", displayName |-> <<"a">>],
             [id |-> "u3", displayName |-> <<"1">>]}

\* a user the issue may already be assigned to
OtherUserId == "u9"

\* args._ as yargs hands it to main: the command, or the command and a stray
\* positional
ArgLists == {<<"on-create-branch">>, <<"on-create-branch", "x">>}

\* branch names of the command line
Branches == {<<"a", "/", "a", "-", "1", "-", "a">>,
             <<"a", "/", "a", "-", "1">>,
             <<"1", "/", "a", "-", "1">>,
             <<"/", "a", "-", "1">>,
             <<"a", "/", "1", "-", "1">>,
             <<"a", "/", "a", "1">>,
             <<"a", "-", "1">>,
             <<"a", "/", "a", "/", "a", "-", "1">>}

RECURSIVE SeqsUpTo(_, _)
SeqsUpTo(S, n) ==
    IF n = 0 THEN {<<>>}
    ELSE LET shorter == SeqsUpTo(S, n - 1)
         IN  shorter \cup {Append(s, c) : s \in shorter, c \in S}

AllBranches == SeqsUpTo(Chars, MaxBranchLen)

\* ------------------------------------------------------------------ state
VARIABLES
    \* remote tracker
    gitBranchFormat,    \* Organization.gitBranchFormat
    issueStateId,       \* the issue's workflow state, or Null
    issueTeam,          \* the issue's team, or Null
    teamDraft,          \* Team.draftWorkflowState, or Null
    issueAssignee,      \* the issue's assignee, or Null
    users,              \* the organization's users
    \* process
    branchName,         \* args.branchName
    args,               \* args._
    mainPc,             \* position of main
    mainPromise,        \* the promise main returns
    pc,                 \* position of onCreateBranch and its callees
    ocbPromise,         \* the promise onCreateBranch returns
    exitCode,           \* the process's exit code, NotExited while it runs
    error,              \* the error thrown in this run, "none" if none
    calls,              \* the remote calls issued in this run, in order
    settled,            \* how many of them have resolved or rejected
    \* locals of onCreateBranch and its callees
    branchSpec,         \* { assignee, issueIdentifier } of line 38
    issue,              \* the Issue object of line 49
    issueState,         \* line 50
    team,               \* line 51
    teamDraftState,     \* line 55
    user,               \* line 75
    \* history
    run,                \* number of this invocation
    advancer,           \* maybeUpdateIssueToTeamDraftState in this run
    setter,             \* maybeSetIssueAssignee in this run
    prevAdvancer,       \* advancer of the previous run
    stateAtStart        \* issueStateId when this run began

remoteVars == <<gitBranchFormat, issueStateId, issueTeam, teamDraft, issueAssignee, users>>
mainVars == <<args, mainPc, mainPromise, exitCode>>
localVars == <<branchSpec, issue, issueState, team, teamDraftState, user>>
histVars == <<run, prevAdvancer, stateAtStart>>
vars == <<remoteVars, branchName, mainVars, pc, ocbPromise, error, calls, settled,
          localVars, advancer, setter, histVars>>

NoIssue == [state |-> Null, team |-> Null, assignee |-> Null]

Call(op, arg, by) == [op |-> op, arg |-> arg, by |-> by]

ProcessInit ==
    /\ args = <<>>
    /\ mainPc = "init"
    /\ mainPromise = "pending"
    /\ pc = "idle"
    /\ ocbPromise = "none"
    /\ exitCode = NotExited
    /\ error = "none"
    /\ calls = <<>>
    /\ settled = 0
    /\ branchSpec = {}
    /\ issue = NoIssue
    /\ issueState = Null
    /\ team = Null
    /\ teamDraftState = Null
    /\ user = Null
    /\ advancer = "notrun"
    /\ setter = "notrun"

RemoteInit ==
    /\ issueStateId \in StateIds \cup {Null}
    /\ issueTeam \in {Null, TeamId}
    /\ teamDraft \in IF issueTeam = Null THEN {Null} ELSE StateIds \cup {Null}
    /\ issueAssignee \in {Null, OtherUserId}
    /\ users \in SUBSET AllUsers

Init ==
    /\ gitBranchFormat \in Formats
    /\ RemoteInit
    /\ branchName \in Branches
    /\ ProcessInit
    /\ run = 1
    /\ prevAdvancer = "notrun"
    /\ stateAtStart = issueStateId

\* every branch name up to MaxBranchLen, against one tracker
InitParse ==
    /\ gitBranchFormat \in Formats
    /\ issueStateId = "s_triage"
    /\ issueTeam = TeamId
    /\ teamDraft = "s_started"
    /\ issueAssignee = Null
    /\ users = {u \in AllUsers : u.id # "u2"}
    /\ branchName \in AllBranches
    /\ ProcessInit
    /\ run = 1
    /\ prevAdvancer = "notrun"
    /\ stateAtStart = issueStateId

\* ------------------------------------------------------------- conditions
MissingDraftOnly(draft, state) == draft = Null

\* line 56: !teamDraftState || !issueState
MissingDraftOrState(draft, state) == draft = Null \/ state = Null

\* line 59
ShouldAdvance(type) == type \in AdvanceableTypes

NoAssigneeNameAlways(assigneeName) == TRUE

\* line 70: !assigneeName, of a string
NoAssigneeName(assigneeName) == assigneeName = <<>>

UnassignedAlways(assignee) == TRUE

\* line 74: !assignee
Unassigned(assignee) == assignee = Null

\* ---------------------------------------------------------------- actions
\* an error thrown inside onCreateBranch or a callee: nothing catches it, so
\* it rejects the promise onCreateBranch returned
Throw(e) ==
    /\ error' = e
    /\ pc' = "done"
    /\ ocbPromise' = "rejected"

\* lines 157-183 and 137-144: the script builds args and calls main, which
\* exits on a wrong number of commands and otherwise fetches the organization
Invoke ==
    /\ mainPc = "init"
    /\ \E a \in ArgLists :
        /\ args' = a
        /\ IF Len(a) # 1
           THEN /\ exitCode' = {1}
                /\ mainPc' = "done"
                /\ calls' = calls
           ELSE /\ exitCode' = exitCode
                /\ mainPc' = "awaitOrg"
                /\ calls' = Append(calls, Call("organization", "", "main"))
    /\ UNCHANGED <<remoteVars, branchName, mainPromise, pc, ocbPromise, error,
                   settled, localVars, advancer, setter, histVars>>

\* lines 144-150: the organization arrives; main calls onCreateBranch without
\* awaiting it and returns.  onCreateBranch runs to its first await (line 36).
MainOrgFetched ==
    /\ mainPc = "awaitOrg"
    /\ settled' = settled + 1
    /\ exitCode = NotExited
    /\ mainPc' = "done"
    /\ \E ok \in BOOLEAN :
        IF ~ok
        THEN /\ mainPromise' = "rejected"
             /\ error' = "RemoteFailure"
             /\ UNCHANGED <<pc, ocbPromise, calls>>
        ELSE /\ mainPromise' = "fulfilled"
             /\ error' = error
             /\ IF args[1] = "on-create-branch"
                THEN /\ pc' = "awaitOrg"
                     /\ ocbPromise' = "pending"
                     /\ calls' = Append(calls, Call("organization", "", "onCreateBranch"))
                ELSE UNCHANGED <<pc, ocbPromise, calls>>
    /\ UNCHANGED <<remoteVars, branchName, args, exitCode, localVars, advancer,
                   setter, histVars>>

\* lines 36-43 and 49: the organization arrives, the branch name is parsed
\* and the advancer starts by fetching the issue
OcbOrgFetched ==
    /\ pc = "awaitOrg"
    /\ settled' = settled + 1
    /\ \E ok \in BOOLEAN :
        LET parsed == collectAssigneeIssueIdentifierFromBranchName(
                          gitBranchFormat, branchName)
        IN  IF ~ok
            THEN /\ Throw("RemoteFailure")
                 /\ UNCHANGED <<branchSpec, advancer, calls>>
            ELSE IF parsed.error # "none"
            THEN /\ Throw(parsed.error)
                 /\ UNCHANGED <<branchSpec, advancer, calls>>
            ELSE /\ branchSpec' = parsed.spec
                 /\ advancer' = "running"
                 /\ pc' = "awaitIssue"
                 /\ calls' = Append(calls, Call("issue", "", "advancer"))
                 /\ UNCHANGED <<error, ocbPromise>>
    /\ UNCHANGED <<remoteVars, branchName, mainVars, issue, issueState, team,
                   teamDraftState, user, setter, histVars>>

\* the identifier the advancer was called with
IssueIdentifierOf(bs) == (CHOOSE b \in bs : TRUE).issueIdentifier

\* the assignee name the setter was called with
AssigneeOf(bs) == (CHOOSE b \in bs : TRUE).assignee

\* lines 49-50: lc.issue resolves to the issue the identifier names, or rejects
AdvIssueFetched ==
    /\ pc = "awaitIssue"
    /\ settled' = settled + 1
    /\ \E ok \in BOOLEAN :
        IF ~ok \/ IssueIdentifierOf(branchSpec) # IssueIdentifier
        THEN /\ Throw("RemoteFailure")
             /\ advancer' = "failed"
             /\ UNCHANGED <<issue, calls>>
        ELSE /\ issue' = [state |-> issueStateId, team |-> issueTeam,
                          assignee |-> issueAssignee]
             /\ pc' = "awaitState"
             /\ calls' = Append(calls, Call("issue.state", "", "advancer"))
             /\ UNCHANGED <<error, ocbPromise, advancer>>
    /\ UNCHANGED <<remoteVars, branchName, mainVars, branchSpec, issueState, team,
                   teamDraftState, user, setter, histVars>>

\* lines 50-51
AdvStateFetched ==
    /\ pc = "awaitState"
    /\ settled' = settled + 1
    /\ \E ok \in BOOLEAN :
        IF ~ok
        THEN /\ Throw("RemoteFailure")
             /\ advancer' = "failed"
             /\ UNCHANGED <<issueState, calls>>
        ELSE /\ issueState' = issue.state
             /\ pc' = "awaitTeam"
             /\ calls' = Append(calls, Call("issue.team", "", "advancer"))
             /\ UNCHANGED <<error, ocbPromise, advancer>>
    /\ UNCHANGED <<remoteVars, branchName, mainVars, branchSpec, issue, team,
                   teamDraftState, user, setter, histVars>>

\* lines 51-55
AdvTeamFetched ==
    /\ pc = "awaitTeam"
    /\ settled' = settled + 1
    /\ \E ok \in BOOLEAN :
        IF ~ok
        THEN /\ Throw("RemoteFailure")
             /\ advancer' = "failed"
             /\ UNCHANGED <<team, calls>>
        ELSE /\ team' = issue.team
             /\ IF issue.team = Null
                THEN /\ Throw("MissingTeam")
                     /\ advancer' = "failed"
                     /\ calls' = calls
                ELSE /\ pc' = "awaitDraft"
                     /\ calls' = Append(calls,
                            Call("team.draftWorkflowState", "", "advancer"))
                     /\ UNCHANGED <<error, ocbPromise, advancer>>
    /\ UNCHANGED <<remoteVars, branchName, mainVars, branchSpec, issue, issueState,
                   teamDraftState, user, setter, histVars>>

\* lines 44 and 69-73: the advancer returned the issue; the setter returns at
\* once on a null or empty name and otherwise fetches the issue's assignee
StartSetter(callsNow) ==
    /\ advancer' = "ok"
    /\ error' = error
    /\ IF NoAssigneeName(AssigneeOf(branchSpec))
       THEN /\ setter' = "ok"
            /\ pc' = "done"
            /\ ocbPromise' = "fulfilled"
            /\ calls' = callsNow
       ELSE /\ setter' = "running"
            /\ pc' = "awaitAssignee"
            /\ ocbPromise' = ocbPromise
            /\ calls' = Append(callsNow, Call("issue.assignee", "", "setter"))

\* lines 55-66: the preconditions and the transition rule
AdvDraftFetched ==
    /\ pc = "awaitDraft"
    /\ settled' = settled + 1
    /\ \E ok \in BOOLEAN :
        IF ~ok
        THEN /\ Throw("RemoteFailure")
             /\ advancer' = "failed"
             /\ UNCHANGED <<teamDraftState, calls, setter>>
        ELSE /\ teamDraftState' = teamDraft
             /\ IF MissingDraftOrState(teamDraft, issueState)
                THEN /\ Throw("MissingDraftStateOrIssueState")
                     /\ advancer' = "failed"
                     /\ UNCHANGED <<calls, setter>>
                ELSE IF ShouldAdvance(StateType(issueState))
                THEN /\ pc' = "awaitStateUpdate"
                     /\ calls' = Append(calls,
                            Call("update.stateId", teamDraft, "advancer"))
                     /\ UNCHANGED <<error, ocbPromise, advancer, setter>>
                ELSE StartSetter(calls)
    /\ UNCHANGED <<remoteVars, branchName, mainVars, branchSpec, issue, issueState,
                   team, user, histVars>>

\* lines 61-66: the tracker applies the stateId update
AdvStateUpdated ==
    /\ pc = "awaitStateUpdate"
    /\ settled' = settled + 1
    /\ \E ok \in BOOLEAN :
        IF ~ok
        THEN /\ Throw("RemoteFailure")
             /\ advancer' = "failed"
             /\ UNCHANGED <<issueStateId, calls, setter>>
        ELSE /\ issueStateId' = teamDraftState
             /\ StartSetter(calls)
    /\ UNCHANGED <<gitBranchFormat, issueTeam, teamDraft, issueAssignee, users,
                   branchName, mainVars, localVars, histVars>>

\* lines 73-75 and 85-88
SetAssigneeFetched ==
    /\ pc = "awaitAssignee"
    /\ settled' = settled + 1
    /\ \E ok \in BOOLEAN :
        IF ~ok
        THEN /\ Throw("RemoteFailure")
             /\ setter' = "failed"
             /\ calls' = calls
        ELSE IF Unassigned(issue.assignee)
        THEN /\ pc' = "awaitUsers"
             /\ calls' = Append(calls, Call("users", "", "setter"))
             /\ UNCHANGED <<error, ocbPromise, setter>>
        ELSE /\ setter' = "ok"
             /\ pc' = "done"
             /\ ocbPromise' = "fulfilled"
             /\ UNCHANGED <<error, calls>>
    /\ UNCHANGED <<remoteVars, branchName, mainVars, localVars, advancer, histVars>>

getAnyUserFromDisplayName(displayName) ==
    LET nodes == {u \in users : u.displayName = displayName}
    IN  IF nodes = {} THEN Null ELSE (CHOOSE u \in nodes : TRUE).id

\* lines 91-101: the users whose display name equals the name, if exactly one
getUserFromDisplayName(displayName) ==
    LET nodes == {u \in users : u.displayName = displayName}
    IN  IF Cardinality(nodes) # 1 THEN Null ELSE (CHOOSE u \in nodes : TRUE).id

\* lines 75-83
SetUsersFetched ==
    /\ pc = "awaitUsers"
    /\ settled' = settled + 1
    /\ \E ok \in BOOLEAN :
        LET found == getUserFromDisplayName(AssigneeOf(branchSpec))
        IN  IF ~ok
            THEN /\ Throw("RemoteFailure")
                 /\ setter' = "failed"
                 /\ UNCHANGED <<user, calls>>
            ELSE /\ user' = found
                 /\ IF found = Null
                    THEN /\ Throw("AssigneeResolutionFailed")
                         /\ setter' = "failed"
                         /\ calls' = calls
                    ELSE /\ pc' = "awaitAssigneeUpdate"
                         /\ calls' = Append(calls,
                                Call("update.assigneeId", found, "setter"))
                         /\ UNCHANGED <<error, ocbPromise, setter>>
    /\ UNCHANGED <<remoteVars, branchName, mainVars, branchSpec, issue, issueState,
                   team, teamDraftState, advancer, histVars>>

\* lines 81-88 and 45: the tracker applies the assigneeId update
SetAssigneeUpdated ==
    /\ pc = "awaitAssigneeUpdate"
    /\ settled' = settled + 1
    /\ \E ok \in BOOLEAN :
        IF ~ok
        THEN /\ Throw("RemoteFailure")
             /\ setter' = "failed"
             /\ issueAssignee' = issueAssignee
        ELSE /\ issueAssignee' = user
             /\ setter' = "ok"
             /\ pc' = "done"
             /\ ocbPromise' = "fulfilled"
             /\ error' = error
    /\ UNCHANGED <<gitBranchFormat, issueStateId, issueTeam, teamDraft, users,
                   branchName, mainVars, calls, localVars, advancer, histVars>>

\* what the runtime does with a rejected promise nobody handles: raise it as
\* an uncaught exception, or only warn
UnhandledRejectionModes == {"throw", "warn"}

\* line 183: nothing handles main's promise, and line 148 drops
\* onCreateBranch's; the process ends when no work is left
ProcessExit ==
    /\ exitCode = NotExited
    /\ mainPc = "done"
    /\ pc \in {"idle", "done"}
    /\ \E mode \in UnhandledRejectionModes :
        exitCode' = IF /\ "rejected" \in {mainPromise, ocbPromise}
                       /\ mode = "throw"
                    THEN {1} ELSE {0}
    /\ UNCHANGED <<remoteVars, branchName, args, mainPc, mainPromise, pc,
                   ocbPromise, error, calls, settled, localVars, advancer, setter,
                   histVars>>

\* the CI job runs the script again for the same branch: the process keeps
\* nothing, the tracker keeps everything
Rerun ==
    /\ exitCode # NotExited
    /\ run < MaxRuns
    /\ run' = run + 1
    /\ prevAdvancer' = advancer
    /\ stateAtStart' = issueStateId
    /\ args' = <<>>
    /\ mainPc' = "init"
    /\ mainPromise' = "pending"
    /\ pc' = "idle"
    /\ ocbPromise' = "none"
    /\ exitCode' = NotExited
    /\ error' = "none"
    /\ calls' = <<>>
    /\ settled' = 0
    /\ branchSpec' = {}
    /\ issue' = NoIssue
    /\ issueState' = Null
    /\ team' = Null
    /\ teamDraftState' = Null
    /\ user' = Null
    /\ advancer' = "notrun"
    /\ setter' = "notrun"
    /\ UNCHANGED <<remoteVars, branchName>>

Next ==
    \/ Invoke
    \/ MainOrgFetched
    \/ OcbOrgFetched
    \/ AdvIssueFetched
    \/ AdvStateFetched
    \/ AdvTeamFetched
    \/ AdvDraftFetched
    \/ AdvStateUpdated
    \/ SetAssigneeFetched
    \/ SetUsersFetched
    \/ SetAssigneeUpdated
    \/ ProcessExit
    \/ Rerun

Spec == Init /\ [][Next]_vars

SpecParse == InitParse /\ [][Next]_vars

\* ------------------------------------------------------ notions of claims
IsUpdate(c) == c.op \in {"update.stateId", "update.assigneeId"}

\* the update calls of this run, in order
UpdateCalls == SelectSeq(calls, IsUpdate)

ByAdvancer(c) == c.by = "advancer"
BySetter(c) == c.by = "setter"
AdvancerUpdates == SelectSeq(SelectSeq(calls, ByAdvancer), IsUpdate)
SetterCalls == SelectSeq(calls, BySetter)
SetterUpdates == SelectSeq(SetterCalls, IsUpdate)

OpsOf(cs) == {cs[i].op : i \in DOMAIN cs}

\* the call op of this run was issued and has resolved
Resolved(op) ==
    /\ op \in OpsOf(calls)
    /\ \/ calls[Len(calls)].op # op
       \/ pc = "done" /\ error # "RemoteFailure"

\* the text of s before the first c, and the text after it
Before(s, c) ==
    LET k == CHOOSE k \in 0..Len(s) :
                 /\ \A i \in 1..k : s[i] # c
                 /\ k = Len(s) \/ s[k + 1] = c
    IN  SubSeq(s, 1, k)

After(s, c) == SubSeq(s, Len(Before(s, c)) + 2, Len(s))

Count(s, c) == Cardinality({i \in DOMAIN s : s[i] = c})

Uppercased(s) == [i \in DOMAIN s |-> IF s[i] = "a" THEN "A" ELSE s[i]]

\* the branch has exactly one '/' and a '-' after it
WellFormed(b) == Count(b, "/") = 1 /\ Count(After(b, "/"), "-") >= 1

\* the BranchSpec a well-formed branch stands for
ExpectedSpec(b) ==
    LET seg1 == After(b, "/")
    IN  [assignee |-> Before(b, "/"),
         issueIdentifier |-> Uppercased(Before(seg1, "-")) \o <<"-">>
                                 \o Before(After(seg1, "-"), "-")]

\* the parser has run in this run
Parsed == branchSpec # {} \/ error = "IncompatibleBranchFormat"

TheSpec == CHOOSE b \in branchSpec : TRUE

\* ----------------------------------------------------------------- claims
\* C1: once the advancer has found a team, a draft state and a current state,
\* it has issued exactly one update, with stateId the draft state's id, if
\* the current state's type is triage, backlog or unstarted, and no update
\* otherwise; before that it has issued none.
C1_TransitionRule ==
    IF Resolved("team.draftWorkflowState") /\ teamDraft # Null /\ issue.state # Null
    THEN AdvancerUpdates =
             IF StateType(issue.state) \in {"triage", "backlog", "unstarted"}
             THEN <<Call("update.stateId", teamDraft, "advancer")>>
             ELSE <<>>
    ELSE AdvancerUpdates = <<>>

C1_Witness ==
    /\ advancer = "ok"
    /\ StateType(issue.state) = "backlog"
    /\ teamDraft = "s_started"
    /\ Len(AdvancerUpdates) = 1

\* C2: when the issue the setter reads already has an assignee, the setter
\* issues no user lookup and no update and the assignee stays; when the
\* BranchSpec carries no assignee the setter issues no remote call at all.
C2_NeverOverwrites ==
    /\ (setter # "notrun" /\ issue.assignee # Null) =>
           /\ OpsOf(SetterCalls) \subseteq {"issue.assignee"}
           /\ issueAssignee = issue.assignee
    /\ (setter # "notrun" /\ TheSpec.assignee = <<>>) => SetterCalls = <<>>

C2_Witness ==
    /\ setter = "ok"
    /\ issue.assignee = OtherUserId
    /\ TheSpec.assignee = <<"1">>
    /\ \E u \in users : u.displayName = <<"1">>

\* C3: when a stage of onCreateBranch failed (organization fetch, parsing,
\* advancer or setter), the error has come out through main's promise and
\* the process does not end reporting success.
C3_FailurePropagates ==
    (exitCode # NotExited /\ ocbPromise = "rejected") =>
        (mainPromise = "rejected" /\ exitCode # {0})

\* C4: under the supported format a well-formed branch parses to segment 0
\* as assignee and uppercase(part 0) - part 1 as issue identifier.
C4_ParserSuccess ==
    (Parsed /\ gitBranchFormat = SupportedFormat /\ WellFormed(branchName)) =>
        branchSpec = {ExpectedSpec(branchName)}

C4_Witness ==
    /\ branchSpec # {}
    /\ Count(branchName, "-") >= 2
    /\ TheSpec.assignee = <<"a">>
    /\ TheSpec.issueIdentifier = <<"A", "-", "a">>

\* C5: a branch with no '/', with more than one '/', or with no '-' after
\* the '/', and any branch under another format, fails to parse with
\* IncompatibleBranchFormat and yields no BranchSpec.
C5_ParserFailure ==
    (Parsed /\ (gitBranchFormat # SupportedFormat \/ ~WellFormed(branchName))) =>
        (error = "IncompatibleBranchFormat" /\ branchSpec = {})

C5_Witness ==
    /\ error = "IncompatibleBranchFormat"
    /\ gitBranchFormat = SupportedFormat
    /\ Count(branchName, "/") = 2
    /\ Count(branchName, "-") >= 1

\* the users whose display name is the BranchSpec's assignee
Matching == {u \in users : u.displayName = TheSpec.assignee}

\* C6: once the user lookup has resolved, exactly one update, with
\* assigneeId the one matching user's id, has been issued if exactly one user
\* has the assignee's display name; otherwise the run has failed with
\* AssigneeResolutionFailed and no assignee update was issued.  Before the
\* lookup resolves the setter has issued no update.
C6_AssigneeResolution ==
    IF Resolved("users")
    THEN IF Cardinality(Matching) = 1
         THEN /\ SetterUpdates =
                     <<Call("update.assigneeId", (CHOOSE u \in Matching : TRUE).id,
                            "setter")>>
              /\ error # "AssigneeResolutionFailed"
         ELSE /\ error = "AssigneeResolutionFailed"
              /\ SetterUpdates = <<>>
    ELSE SetterUpdates = <<>> /\ error # "AssigneeResolutionFailed"

C6_Witness ==
    /\ error = "AssigneeResolutionFailed"
    /\ Cardinality(Matching) = 2
    /\ issue.assignee = Null

\* C7: an issue without a team fails the advancer with MissingTeam, and a team
\* without a draft state or an issue without a current state fails it with
\* MissingDraftStateOrIssueState; then the run has issued no update call and
\* the setter has not run.
C7_PreconditionsAbort ==
    /\ (Resolved("issue.team") /\ issueTeam = Null) => error = "MissingTeam"
    /\ (/\ Resolved("team.draftWorkflowState")
        /\ (teamDraft = Null \/ stateAtStart = Null)) =>
           error = "MissingDraftStateOrIssueState"
    /\ error \in {"MissingTeam", "MissingDraftStateOrIssueState"} =>
           /\ advancer = "failed"
           /\ UpdateCalls = <<>>
           /\ setter = "notrun"
           /\ issueStateId = stateAtStart
           /\ issueAssignee = issue.assignee

C7_Witness ==
    /\ error = "MissingDraftStateOrIssueState"
    /\ teamDraft # Null
    /\ stateAtStart = Null
    /\ TheSpec.assignee = <<"1">>
    /\ exitCode # NotExited

\* C8: in a run that follows a run whose advancer succeeded, the advancer
\* issues no update call and leaves the issue's state as it was.
C8_SecondRunNoOp ==
    (prevAdvancer = "ok" /\ advancer # "notrun") =>
        (AdvancerUpdates = <<>> /\ issueStateId = stateAtStart)

\* C9: a run on a well-formed branch naming the issue, with no remote call
\* rejected, an issue in a triage, backlog or unstarted state, a team with a
\* draft state, no assignee and exactly one user of the assignee's name, ends
\* without error after exactly two updates, stateId then assigneeId, with the
\* issue in the draft state and assigned to that user; and no remote call is
\* ever issued before the one before it has settled.
C9_Precondition ==
    /\ gitBranchFormat = SupportedFormat
    /\ WellFormed(branchName)
    /\ ExpectedSpec(branchName).issueIdentifier = IssueIdentifier
    /\ Len(args) = 1
    /\ error # "RemoteFailure"
    /\ stateAtStart # Null
    /\ StateType(stateAtStart) \in {"triage", "backlog", "unstarted"}
    /\ issueTeam # Null
    /\ teamDraft # Null
    /\ issue.assignee = Null
    /\ Cardinality({u \in users :
           u.displayName = ExpectedSpec(branchName).assignee}) = 1

TheUser ==
    (CHOOSE u \in users : u.displayName = ExpectedSpec(branchName).assignee).id

C9_EndToEnd ==
    /\ Len(calls) - settled \in {0, 1}
    /\ (exitCode # NotExited /\ C9_Precondition) =>
           /\ error = "none"
           /\ ocbPromise = "fulfilled"
           /\ exitCode = {0}
           /\ UpdateCalls = <<Call("update.stateId", teamDraft, "advancer"),
                              Call("update.assigneeId", TheUser, "setter")>>
           /\ issueStateId = teamDraft
           /\ issueAssignee = TheUser

C9_Witness ==
    /\ exitCode = {0}
    /\ C9_Precondition
    /\ Len(UpdateCalls) = 2
    /\ stateAtStart = "s_triage"
    /\ issueStateId = "s_started"
    /\ issueAssignee = "u3"

\* the identifier's prefix: its text before the first '-'
Prefix(id) == Before(id, "-")

\* C10: a returned BranchSpec's issueIdentifier has a non-empty
\* uppercase prefix, a '-' and a non-empty second part; an empty assignee is
\* treated by the setter as no assignee.
C10_IdentifierWellFormed ==
    /\ branchSpec # {} =>
           /\ TheSpec.issueIdentifier # <<>>
           /\ Prefix(TheSpec.issueIdentifier) # <<>>
           /\ Count(Prefix(TheSpec.issueIdentifier), "a") = 0
           /\ Count(TheSpec.issueIdentifier, "-") >= 1
           /\ After(TheSpec.issueIdentifier, "-") # <<>>
    /\ (setter # "notrun" /\ TheSpec.assignee = <<>>) =>
           (setter = "ok" /\ SetterCalls = <<>>)

====
